---- MODULE Spec2Model ----
(***************************************************************************)
(* Model of the batch conversion driver of optimize-images.js: command     *)
(* line parsing, discovery of the task list (directory scan or explicit    *)
(* files), the sequential conversion loop with its per-file skip /         *)
(* convert / fail decision, the statistics counters and the exit status.   *)
(*                                                                         *)
(* A path is a sequence of tokens: the separator "/", name atoms without   *)
(* dots ("r", "a", "q") and dot tokens (".jpg", ".webp").  A substring     *)
(* search for an extension in the path text is then a search for the       *)
(* token, because an extension starts with a dot and only a dot token      *)
(* does.                                                                   *)
(***************************************************************************)
EXTENDS Integers, Sequences, FiniteSets, TLC

(* ---------------------------------------------------------------------- *)
(* Bounds                                                                  *)
(* ---------------------------------------------------------------------- *)
MaxArgs == 2
MaxRuns == 2

(* ---------------------------------------------------------------------- *)
(* Paths                                                                   *)
(* ---------------------------------------------------------------------- *)
Sep == "/"

DotTokens == {".jpg", ".jpeg", ".png", ".gif", ".mp4", ".webm", ".mov",
              ".JPG", ".webp", ".avif", ".txt"}

\* String.prototype.toLowerCase on one token
LowerToken(t) ==
    CASE t = ".JPG" -> ".jpg"
      [] t = "AVIF" -> "avif"
      [] t = "WebP" -> "webp"
      [] t = "-L"   -> "-l"
      [] OTHER      -> t

ToLowerCase(p) == [i \in 1..Len(p) |-> LowerToken(p[i])]

\* index of the last separator of p, 0 when there is none
LastSep(p) ==
    LET S == {i \in 1..Len(p) : p[i] = Sep}
    IN  IF S = {} THEN 0 ELSE CHOOSE i \in S : \A j \in S : j <= i

Basename(p) == SubSeq(p, LastSep(p) + 1, Len(p))

Dirname(p) ==
    IF LastSep(p) = 0 THEN <<".">>
    ELSE IF LastSep(p) = 1 THEN <<Sep>>
    ELSE SubSeq(p, 1, LastSep(p) - 1)

\* path.extname: the text from the last dot of the base name on; empty when
\* the base name has no dot or its only dot is its first character
ExtName(p) ==
    LET b == Basename(p)
    IN  IF Len(b) >= 2 /\ b[Len(b)] \in DotTokens THEN b[Len(b)] ELSE ""

Cwd == <<"/", "r">>

\* path.resolve of a normalised path against the working directory
Resolve(p) == IF Len(p) > 0 /\ p[1] = Sep THEN p ELSE Cwd \o <<Sep>> \o p

\* path.join(dir, name)
Join(dir, name) == IF dir = <<Sep>> THEN dir \o name ELSE dir \o <<Sep>> \o name

\* String.prototype.replace(pattern, replacement) with a string pattern:
\* only the first occurrence is replaced, and the empty pattern matches at
\* position 0.
ReplaceFirst(p, pat, rep) ==
    IF pat = "" THEN <<rep>> \o p
    ELSE LET S == {i \in 1..Len(p) : p[i] = pat}
         IN  IF S = {} THEN p
             ELSE [p EXCEPT ![CHOOSE i \in S : \A j \in S : i <= j] = rep]

(* ---------------------------------------------------------------------- *)
(* Configuration                                                           *)
(* ---------------------------------------------------------------------- *)
SUPPORTED_IMAGE_FORMATS == <<".jpg", ".jpeg", ".png", ".gif">>
SUPPORTED_VIDEO_FORMATS == <<".mp4", ".webm", ".mov">>

Range(s) == {s[i] : i \in 1..Len(s)}

ASSETS_DIR == <<"/", "r">>

OutputExt(fmt) == IF fmt = "avif" THEN ".avif" ELSE ".webp"

\* lines 153-155 of convertMedia
OutputPath(filePath, fmt) == ReplaceFirst(filePath, ExtName(filePath), OutputExt(fmt))

(* ---------------------------------------------------------------------- *)
(* Command line (module top level, lines 42-58)                            *)
(* ---------------------------------------------------------------------- *)
\* the format test without toLowerCase
IsFormatArgCaseSensitive(arg) == arg \in {<<"webp">>, <<"avif">>}

\* line 48
IsFormatArg(arg) == ToLowerCase(arg) \in {<<"webp">>, <<"avif">>}

IsLosslessArg(arg) == ToLowerCase(arg) \in {<<"--lossless">>, <<"-l">>}

\* formatArg after args.forEach: the last format token wins, default webp
FormatArg(args) ==
    LET S == {i \in 1..Len(args) : IsFormatArg(args[i])}
    IN  IF S = {} THEN "webp"
        ELSE ToLowerCase(args[CHOOSE i \in S : \A j \in S : j <= i])[1]

IsExplicitArg(arg) == ~IsFormatArg(arg) /\ ~IsLosslessArg(arg)

\* explicitFiles after args.forEach, in argument order
ExplicitFiles(args) == SelectSeq(args, IsExplicitArg)

IsLossless(args) == \E i \in 1..Len(args) : IsLosslessArg(args[i])

(* ---------------------------------------------------------------------- *)
(* Environment variables and CONFIG (lines 61-86)                          *)
(* ---------------------------------------------------------------------- *)
\* the text of an environment variable is a sequence of characters
Digits == <<"0", "1", "2", "3", "4", "5", "6", "7", "8", "9">>

IsDigit(ch) == \E d \in 1..Len(Digits) : Digits[d] = ch

DigitValue(ch) == (CHOOSE d \in 1..Len(Digits) : Digits[d] = ch) - 1

\* number of leading digit characters of s
RECURSIVE LeadingDigits(_)
LeadingDigits(s) ==
    IF s = <<>> \/ ~IsDigit(Head(s)) THEN 0 ELSE 1 + LeadingDigits(Tail(s))

RECURSIVE DigitsValue(_)
DigitsValue(s) ==
    IF s = <<>> THEN 0
    ELSE 10 * DigitsValue(SubSeq(s, 1, Len(s) - 1)) + DigitValue(s[Len(s)])

\* parseInt(text): an optional sign and the leading digits; <<>> stands for
\* NaN (unset variable, empty text, no leading digit), <<n>> for the number n
ParseInt(s) ==
    LET neg  == s # <<>> /\ Head(s) = "-"
        body == IF neg THEN Tail(s) ELSE s
        n    == LeadingDigits(body)
    IN  IF n = 0 THEN <<>>
        ELSE <<(IF neg THEN -1 ELSE 1) * DigitsValue(SubSeq(body, 1, n))>>

\* parsed || dflt: NaN and 0 are falsy
OrDefault(parsed, dflt) == IF parsed = <<>> \/ parsed[1] = 0 THEN dflt ELSE parsed[1]

\* lines 44 and 61-86
LoadConfig(args, e) ==
    [OUTPUT_FORMAT |-> FormatArg(args),
     LOSSLESS      |-> e.LOSSLESS = <<"true">> \/ IsLossless(args),
     WEBP_QUALITY  |-> OrDefault(ParseInt(e.WEBP_QUALITY), 80),
     WEBP_EFFORT   |-> OrDefault(ParseInt(e.WEBP_EFFORT), 6),
     AVIF_QUALITY  |-> OrDefault(ParseInt(e.AVIF_QUALITY), 75),
     AVIF_EFFORT   |-> OrDefault(ParseInt(e.AVIF_EFFORT), 6)]

\* no variable set
NoEnv == [LOSSLESS |-> <<>>, WEBP_QUALITY |-> <<>>, WEBP_EFFORT |-> <<>>,
          AVIF_QUALITY |-> <<>>, AVIF_EFFORT |-> <<>>]

\* lines 133-136
IsVideoFormat(filePath) ==
    LowerToken(ExtName(filePath)) \in Range(SUPPORTED_VIDEO_FORMATS)

\* lines 143-145
IsGifFormat(filePath) == LowerToken(ExtName(filePath)) = ".gif"

Min(a, b) == IF a < b THEN a ELSE b

\* lines 174-210: the options of the encoder call for filePath whose probe
\* reported the given number of pages
EncodeParams(filePath, pages, cfg) ==
    LET isAnimated == IsGifFormat(filePath) \/ IsVideoFormat(filePath)
        animated   == isAnimated /\ pages > 1
    IN  IF cfg.OUTPUT_FORMAT = "avif"
        THEN [input |-> filePath, format |-> "avif", pages |-> pages,
              animated |-> animated,
              quality |-> cfg.AVIF_QUALITY,
              effort |-> IF isAnimated THEN Min(cfg.AVIF_EFFORT, 4) ELSE cfg.AVIF_EFFORT,
              lossless |-> cfg.LOSSLESS,
              loop |-> "unset"]
        ELSE [input |-> filePath, format |-> "webp", pages |-> pages,
              animated |-> animated,
              quality |-> cfg.WEBP_QUALITY,
              effort |-> cfg.WEBP_EFFORT,
              lossless |-> cfg.LOSSLESS,
              loop |-> IF isAnimated THEN "0" ELSE "unset"]

(* ---------------------------------------------------------------------- *)
(* State                                                                   *)
(* ---------------------------------------------------------------------- *)
VARIABLES
    argv,           \* process.argv.slice(2)
    env,            \* process.env: the text of each variable, <<>> when unset
    files,          \* filesystem: path of a regular file -> its content
    dirs,           \* filesystem: the directories that exist
    unreadable,     \* filesystem: directories whose listing fails
    pc,             \* position of the process: "load", "main", "loop", "exited"
    CONFIG,         \* OUTPUT_FORMAT and LOSSLESS
    explicitFiles,  \* the command-line arguments taken as file paths
    mediaFiles,     \* the task list of main
    stats,          \* the statistics counters
    nextTask,       \* index of the next entry of mediaFiles the loop takes
    tpc,            \* position of convertMedia for each started task
    exitCode,       \* exit status of the process, -1 while it runs
    run,            \* number of the current invocation
    filesAtStart,   \* the filesystem when the current invocation started
    written,        \* <<path, task>>: the encoder writes of the current invocation
    calls,          \* the encoder calls of the current invocation, with their options
    rootAccessed,   \* fs.access of the scan root was called in the current invocation
    history         \* the task list, outcomes and counters of finished invocations

vars == <<argv, env, files, dirs, unreadable, pc, CONFIG, explicitFiles, mediaFiles,
          stats, nextTask, tpc, exitCode, run, filesAtStart, written, calls,
          rootAccessed, history>>

\* lines 89-97
ZeroStats == [totalFiles |-> 0, converted |-> 0, skipped |-> 0, errors |-> 0,
              originalSize |-> 0, outputSize |-> 0]

(* ---------------------------------------------------------------------- *)
(* Filesystem                                                              *)
(* ---------------------------------------------------------------------- *)
\* the directories on the way from the filesystem root to p
Ancestors(p) == {SubSeq(p, 1, i - 1) : i \in {j \in 2..Len(p) : p[j] = Sep}}

DirExists(d) == d = <<Sep>> \/ d \in dirs

\* fs.access(p) succeeds
Accessible(p) == Resolve(p) \in DOMAIN files \/ DirExists(Resolve(p))

TokenOrder == <<".JPG", ".avif", ".gif", ".jpeg", ".jpg", ".mov", ".mp4", ".png",
                ".txt", ".webm", ".webp", "a", "b", "c", "d", "g", "n", "p", "q", "r", "s",
                "v">>

TokenRank(t) ==
    LET S == {i \in 1..Len(TokenOrder) : TokenOrder[i] = t}
    IN  IF S = {} THEN 0 ELSE CHOOSE i \in S : TRUE

RECURSIVE NameLess(_, _)
NameLess(a, b) ==
    IF a = <<>> THEN b # <<>>
    ELSE IF b = <<>> THEN FALSE
    ELSE IF TokenRank(Head(a)) # TokenRank(Head(b))
         THEN TokenRank(Head(a)) < TokenRank(Head(b))
         ELSE NameLess(Tail(a), Tail(b))

RECURSIVE SortNames(_)
SortNames(S) ==
    IF S = {} THEN <<>>
    ELSE LET m == CHOOSE x \in S : \A y \in S \ {x} : NameLess(x, y)
         IN  <<m>> \o SortNames(S \ {m})

\* fs.readdir(dir): the names of the entries of dir, in listing order
Readdir(dir) ==
    SortNames({Basename(e) : e \in {x \in DOMAIN files \cup dirs : Dirname(x) = dir}})

ReaddirFails(dir) == ~DirExists(dir) \/ dir \in unreadable

\* lines 104-126
RECURSIVE GetMediaFiles(_)
RECURSIVE ScanItems(_, _)
\* the extension test of line 117 without toLowerCase
ScanItemsCaseSensitive(dir, items) ==
    IF items = <<>> THEN <<>>
    ELSE LET fullPath == Join(dir, Head(items))
             here == IF fullPath \in dirs THEN GetMediaFiles(fullPath)
                     ELSE IF ExtName(Head(items)) \in
                               Range(SUPPORTED_IMAGE_FORMATS \o SUPPORTED_VIDEO_FORMATS)
                          THEN <<fullPath>>
                          ELSE <<>>
         IN  here \o ScanItems(dir, Tail(items))

\* getMediaFiles with its try/catch around the root call only: the error of
\* a subdirectory ends the listing of its parent
ScanItemsStopAtError(dir, items) ==
    IF items = <<>> THEN <<>>
    ELSE LET fullPath == Join(dir, Head(items))
         IN  IF fullPath \in dirs /\ fullPath \in unreadable THEN <<>>
             ELSE (IF fullPath \in dirs THEN GetMediaFiles(fullPath)
                   ELSE IF LowerToken(ExtName(Head(items))) \in
                             Range(SUPPORTED_IMAGE_FORMATS \o SUPPORTED_VIDEO_FORMATS)
                        THEN <<fullPath>>
                        ELSE <<>>)
                  \o ScanItems(dir, Tail(items))

ScanItems(dir, items) ==
    IF items = <<>> THEN <<>>
    ELSE LET fullPath == Join(dir, Head(items))
             here == IF fullPath \in dirs THEN GetMediaFiles(fullPath)
                     ELSE IF LowerToken(ExtName(Head(items))) \in
                               Range(SUPPORTED_IMAGE_FORMATS \o SUPPORTED_VIDEO_FORMATS)
                          THEN <<fullPath>>
                          ELSE <<>>
         IN  here \o ScanItems(dir, Tail(items))

GetMediaFiles(dir) ==
    IF ReaddirFails(dir) THEN <<>> ELSE ScanItems(dir, Readdir(dir))

\* what fs.stat(p) needs to succeed, and the size it reports
StatOk(p) ==
    \/ Resolve(p) \in DOMAIN files /\ files[Resolve(p)].fault # "stat"
    \/ DirExists(Resolve(p))

StatSize(p) == IF Resolve(p) \in DOMAIN files THEN files[Resolve(p)].size ELSE 0

\* sharp(p).metadata() succeeds: p is a regular file with decodable content
ProbeOk(p) == Resolve(p) \in DOMAIN files /\ files[Resolve(p)].fault # "probe"

\* toFile(out) succeeds: the input can be encoded and the directory of the
\* output exists
EncodeOk(p, out) ==
    /\ Resolve(p) \in DOMAIN files
    /\ files[Resolve(p)].fault # "encode"
    /\ DirExists(Dirname(Resolve(out)))
    /\ ~DirExists(Resolve(out))

EncodedSize(c, fmt) == IF fmt = "avif" THEN 1 ELSE (c.size + 1) \div 2

\* the content the encoder writes for input content c: every frame when the
\* animated flag is on, the first frame only otherwise
Encoded(c, fmt, animated) ==
    [src |-> c.src, fmt |-> fmt, size |-> EncodedSize(c, fmt),
     fault |-> IF c.fault = "statOut" THEN "stat" ELSE "none",
     pages |-> IF animated THEN c.pages ELSE 1]

(* ---------------------------------------------------------------------- *)
(* Initial filesystems and command lines                                   *)
(* ---------------------------------------------------------------------- *)
Original(p, size, fault, pages) ==
    [src |-> p, fmt |-> "orig", size |-> size, fault |-> fault, pages |-> pages]

NoFiles == [p \in {} |-> Original(p, 0, "none", 1)]

\* candidate files: path, size, and the faults the file may have
ScanCandidates ==
    << [path |-> <<"/", "r", "/", "a", ".jpg">>, size |-> 4,
        faults |-> {"none", "stat", "probe", "encode", "statOut"}, pages |-> 1],
       [path |-> <<"/", "r", "/", "a", ".png">>, size |-> 2, faults |-> {"none"}, pages |-> 1],
       [path |-> <<"/", "r", "/", "b", ".png">>, size |-> 2, faults |-> {"none"}, pages |-> 1],
       [path |-> <<"/", "r", "/", "b", ".webp">>, size |-> 1, faults |-> {"none"}, pages |-> 1],
       [path |-> <<"/", "r", "/", "c", ".jpg">>, size |-> 3, faults |-> {"probe"},
        pages |-> 1],
       [path |-> <<"/", "r", "/", "p", ".jpg", "/", "q", ".jpg">>, size |-> 2,
        faults |-> {"none"}, pages |-> 1],
       [path |-> <<"/", "r", "/", "n">>, size |-> 2, faults |-> {"none"}, pages |-> 1],
       [path |-> <<"/", "r", "/", "s", "/", "d", ".JPG">>, size |-> 2,
        faults |-> {"none"}, pages |-> 1] >>

ExplicitCandidates ==
    << [path |-> <<"/", "r", "/", "a", ".jpg">>, size |-> 4,
        faults |-> {"none", "probe"}, pages |-> 1],
       [path |-> <<"/", "r", "/", "b", ".webp">>, size |-> 1, faults |-> {"none"}, pages |-> 1],
       [path |-> <<"/", "r", "/", "p", ".jpg", "/", "q", ".jpg">>, size |-> 2,
        faults |-> {"none"}, pages |-> 1],
       [path |-> <<"/", "r", "/", "n">>, size |-> 2, faults |-> {"none"}, pages |-> 1] >>

\* every filesystem that holds a subset of the first k candidates
RECURSIVE FsChoices(_, _)
FsChoices(cands, k) ==
    IF k = 0 THEN {NoFiles}
    ELSE LET c == cands[k]
         IN  FsChoices(cands, k - 1) \cup
             {(c.path :> Original(c.path, c.size, f, c.pages)) @@ g :
                  g \in FsChoices(cands, k - 1), f \in c.faults}

OptionalDirs == {<<"/", "r">>, <<"/", "r", "/", "p", ".webp">>}

DirsOf(fs, extra) ==
    UNION {Ancestors(p) : p \in DOMAIN fs} \cup extra \cup UNION {Ancestors(d) : d \in extra}

ScanArgv == {<<>>, <<<<"AVIF">>>>}

ArgUniverse ==
    {<<"avif">>, <<"a", ".jpg">>, <<"/", "r", "/", "b", ".webp">>, <<"n">>,
     <<"p", ".jpg", "/", "q", ".jpg">>, <<"p", ".webp", "/", "q", ".jpg">>}

ExplicitArgv ==
    {a \in UNION {[1..n -> ArgUniverse] : n \in 1..MaxArgs} : ExplicitFiles(a) # <<>>}

InitProcess ==
    /\ pc = "load"
    /\ CONFIG = LoadConfig(<<>>, NoEnv)
    /\ explicitFiles = <<>>
    /\ mediaFiles = <<>>
    /\ stats = ZeroStats
    /\ nextTask = 1
    /\ tpc = <<>>
    /\ exitCode = -1
    /\ run = 1
    /\ written = {}
    /\ calls = {}
    /\ rootAccessed = FALSE
    /\ history = <<>>
    /\ filesAtStart = files

\* no directory, or one directory, whose listing fails
UnreadableChoices(ds) ==
    {{}} \cup {{d} : d \in ds \cap {ASSETS_DIR, <<"/", "r", "/", "p", ".jpg">>,
                                      <<"/", "r", "/", "s">>}}

InitScan ==
    /\ env = NoEnv
    /\ argv \in ScanArgv
    /\ files \in FsChoices(ScanCandidates, Len(ScanCandidates))
    /\ \E extra \in SUBSET OptionalDirs : dirs = DirsOf(files, extra)
    /\ unreadable \in UnreadableChoices(dirs)

\* the scan root is a regular file
InitRootIsFile ==
    /\ env = NoEnv
    /\ argv \in ScanArgv
    /\ files = (ASSETS_DIR :> Original(ASSETS_DIR, 1, "none", 1))
    /\ dirs = {}
    /\ unreadable = {}

InitExplicit ==
    /\ env = NoEnv
    /\ argv \in ExplicitArgv
    /\ files \in FsChoices(ExplicitCandidates, Len(ExplicitCandidates))
    /\ \E extra \in SUBSET OptionalDirs : dirs = DirsOf(files, extra)
    /\ unreadable = {}

Init == (InitScan \/ InitExplicit \/ InitRootIsFile) /\ InitProcess

\* the decimal text of a natural number
RECURSIVE ToText(_)
ToText(n) ==
    IF n < 10 THEN <<Digits[n + 1]>>
    ELSE ToText(n \div 10) \o <<Digits[(n % 10) + 1]>>

\* environments: nothing set, LOSSLESS set, one quality or effort variable set
\* to a value of its documented range, or to text that is not such a number
EnvChoices ==
    {NoEnv, [NoEnv EXCEPT !.LOSSLESS = <<"true">>],
     [NoEnv EXCEPT !.LOSSLESS = <<"1">>],
     [NoEnv EXCEPT !.WEBP_QUALITY = <<"a">>],
     [NoEnv EXCEPT !.AVIF_EFFORT = <<"7", "x">>],
     [NoEnv EXCEPT !.AVIF_QUALITY = <<"-", "1">>]}
    \cup {[NoEnv EXCEPT !.WEBP_QUALITY = ToText(q)] : q \in 0..100}
    \cup {[NoEnv EXCEPT !.AVIF_QUALITY = ToText(q)] : q \in 0..100}
    \cup {[NoEnv EXCEPT !.WEBP_EFFORT = ToText(e)] : e \in 0..6}
    \cup {[NoEnv EXCEPT !.AVIF_EFFORT = ToText(e), !.LOSSLESS = l] :
              e \in 0..9, l \in {<<>>, <<"true">>}}

\* a still image, a one-frame GIF, an animated GIF, a video and an animated
\* WebP
ParamCandidates ==
    << [path |-> <<"/", "r", "/", "a", ".jpg">>, size |-> 4, faults |-> {"none"},
        pages |-> 1],
       [path |-> <<"/", "r", "/", "b", ".webp">>, size |-> 3, faults |-> {"none"},
        pages |-> 3],
       [path |-> <<"/", "r", "/", "d", ".gif">>, size |-> 2, faults |-> {"none"},
        pages |-> 1],
       [path |-> <<"/", "r", "/", "g", ".gif">>, size |-> 4, faults |-> {"none"},
        pages |-> 3],
       [path |-> <<"/", "r", "/", "v", ".mp4">>, size |-> 4, faults |-> {"none"},
        pages |-> 3] >>

AllOf(cands) ==
    [p \in {cands[k].path : k \in 1..Len(cands)} |->
        LET c == cands[CHOOSE k \in 1..Len(cands) : cands[k].path = p]
        IN  Original(c.path, c.size, "none", c.pages)]

ParamArgv ==
    {<<>>, <<<<"avif">>>>, <<<<"AVIF">>, <<"-l">>>>, <<<<"--lossless">>>>,
     <<<<"avif">>, <<"b", ".webp">>>>, <<<<"g", ".gif">>>>}

InitParams ==
    /\ env \in EnvChoices
    /\ argv \in ParamArgv
    /\ files \in {NoFiles, AllOf(ParamCandidates)}
    /\ \E extra \in SUBSET {ASSETS_DIR} : dirs = DirsOf(files, extra)
    /\ unreadable = {}
    /\ InitProcess

(* ---------------------------------------------------------------------- *)
(* Actions                                                                 *)
(* ---------------------------------------------------------------------- *)
Final == {"converted", "skipped", "failed"}

\* lines 42-58 and 61-97: the module is loaded
ParseArgs ==
    /\ pc = "load"
    /\ CONFIG' = LoadConfig(argv, env)
    /\ explicitFiles' = ExplicitFiles(argv)
    /\ stats' = ZeroStats
    /\ pc' = "main"
    /\ UNCHANGED <<argv, env, files, dirs, unreadable, mediaFiles, nextTask, tpc,
                   exitCode, run, filesAtStart, written, calls,
                   rootAccessed, history>>

\* lines 320-327: the task list is known
EnterLoop(list) ==
    /\ mediaFiles' = list
    /\ stats' = [stats EXCEPT !.totalFiles = Len(list)]
    /\ nextTask' = 1
    /\ tpc' = [i \in 1..Len(list) |-> "idle"]
    /\ IF Len(list) = 0
       THEN pc' = "exited" /\ exitCode' = 0
       ELSE pc' = "loop" /\ exitCode' = exitCode

ResolveAll(fs) == [i \in 1..Len(fs) |-> Resolve(fs[i])]

\* lines 300-312: explicit files, the missing ones are dropped
DiscoverExplicit ==
    /\ pc = "main"
    /\ Len(explicitFiles) > 0
    /\ EnterLoop(SelectSeq(ResolveAll(explicitFiles), Accessible))
    /\ UNCHANGED <<argv, env, files, dirs, unreadable, CONFIG, explicitFiles, run,
                   filesAtStart, written, calls,
                   rootAccessed, history>>

\* getMediaFiles without its try/catch: a failing listing of the root reaches
\* the catch of main
DiscoverScanListingThrows ==
    /\ pc = "main"
    /\ Len(explicitFiles) = 0
    /\ Accessible(ASSETS_DIR)
    /\ IF ReaddirFails(ASSETS_DIR)
       THEN /\ pc' = "exited"
            /\ exitCode' = 1
            /\ UNCHANGED <<mediaFiles, stats, nextTask, tpc>>
       ELSE EnterLoop(GetMediaFiles(ASSETS_DIR))
    /\ rootAccessed' = TRUE
    /\ UNCHANGED <<argv, env, files, dirs, unreadable, CONFIG, explicitFiles, run,
                   filesAtStart, written, calls, history>>

\* lines 313-318: the scan root is accessible and is scanned
DiscoverScan ==
    /\ pc = "main"
    /\ Len(explicitFiles) = 0
    /\ Accessible(ASSETS_DIR)
    /\ EnterLoop(GetMediaFiles(ASSETS_DIR))
    /\ rootAccessed' = TRUE
    /\ UNCHANGED <<argv, env, files, dirs, unreadable, CONFIG, explicitFiles, run,
                   filesAtStart, written, calls, history>>

\* the catch of main without process.exit(1)
FatalErrorExitsZero ==
    /\ pc = "main"
    /\ Len(explicitFiles) = 0
    /\ ~Accessible(ASSETS_DIR)
    /\ pc' = "exited"
    /\ exitCode' = 0
    /\ rootAccessed' = TRUE
    /\ UNCHANGED <<argv, env, files, dirs, unreadable, CONFIG, explicitFiles, mediaFiles,
                   stats, nextTask, tpc, run, filesAtStart, written, calls, history>>

\* lines 316 and 336-343: fs.access of the scan root throws
FatalError ==
    /\ pc = "main"
    /\ Len(explicitFiles) = 0
    /\ ~Accessible(ASSETS_DIR)
    /\ pc' = "exited"
    /\ exitCode' = 1
    /\ rootAccessed' = TRUE
    /\ UNCHANGED <<argv, env, files, dirs, unreadable, CONFIG, explicitFiles, mediaFiles,
                   stats, nextTask, tpc, run, filesAtStart, written, calls, history>>

\* the loop without the await of line 331: convertMedia calls are fired and
\* never waited for
PreviousNotAwaited == TRUE

\* line 331: the loop waits for convertMedia of the previous entry
PreviousSettled == \A i \in 1..(nextTask - 1) : tpc[i] \in Final

\* a loop that steps over every other entry
StartTaskSkipsOne ==
    /\ pc = "loop"
    /\ nextTask <= Len(mediaFiles)
    /\ PreviousSettled
    /\ tpc' = [tpc EXCEPT ![nextTask] = "access"]
    /\ nextTask' = nextTask + 2
    /\ UNCHANGED <<argv, env, files, dirs, unreadable, pc, CONFIG, explicitFiles,
                   mediaFiles, stats, exitCode, run, filesAtStart, written, calls,
                   rootAccessed, history>>

\* lines 330-331: the loop takes the next entry and calls convertMedia
StartTask ==
    /\ pc = "loop"
    /\ nextTask <= Len(mediaFiles)
    /\ PreviousSettled
    /\ tpc' = [tpc EXCEPT ![nextTask] = "access"]
    /\ nextTask' = nextTask + 1
    /\ UNCHANGED <<argv, env, files, dirs, unreadable, pc, CONFIG, explicitFiles,
                   mediaFiles, stats, exitCode, run, filesAtStart, written, calls,
                   rootAccessed, history>>

TaskOutput(i) == OutputPath(mediaFiles[i], CONFIG.OUTPUT_FORMAT)

\* the existence check always answering "no"
OutputNeverExists(out) == FALSE

\* the existence check answered from the listing taken when the run started
OutputExistedAtStart(out) == Resolve(out) \in DOMAIN filesAtStart \/ DirExists(Resolve(out))

\* line 158
OutputExists(out) == Accessible(out)

\* convertMedia without its try/catch: the error reaches the catch of main
FailAborts(i) ==
    /\ stats' = stats
    /\ tpc' = [tpc EXCEPT ![i] = "failed"]
    /\ pc' = "exited"
    /\ exitCode' = 1

\* lines 220-223: the error is caught inside convertMedia, main goes on
Fail(i) ==
    /\ stats' = [stats EXCEPT !.errors = @ + 1]
    /\ tpc' = [tpc EXCEPT ![i] = "failed"]
    /\ UNCHANGED <<pc, exitCode>>

\* lines 153-164
ConvertAccess(i) ==
    /\ tpc[i] = "access"
    /\ IF OutputExists(TaskOutput(i))
       THEN /\ stats' = [stats EXCEPT !.skipped = @ + 1]
            /\ tpc' = [tpc EXCEPT ![i] = "skipped"]
       ELSE /\ stats' = stats
            /\ tpc' = [tpc EXCEPT ![i] = "stat"]
    /\ UNCHANGED <<argv, env, files, dirs, unreadable, pc, CONFIG, explicitFiles,
                   mediaFiles, nextTask, exitCode, run, filesAtStart, written, calls,
                   rootAccessed, history>>

\* lines 166-168
ConvertStat(i) ==
    /\ tpc[i] = "stat"
    /\ IF StatOk(mediaFiles[i])
       THEN /\ stats' = [stats EXCEPT !.originalSize = @ + StatSize(mediaFiles[i])]
            /\ tpc' = [tpc EXCEPT ![i] = "probe"]
            /\ UNCHANGED <<pc, exitCode>>
       ELSE Fail(i)
    /\ UNCHANGED <<argv, env, files, dirs, unreadable, CONFIG, explicitFiles,
                   mediaFiles, nextTask, run, filesAtStart, written, calls,
                   rootAccessed, history>>

\* lines 170-172
ConvertProbe(i) ==
    /\ tpc[i] = "probe"
    /\ IF ProbeOk(mediaFiles[i])
       THEN /\ stats' = stats
            /\ tpc' = [tpc EXCEPT ![i] = "encode"]
            /\ UNCHANGED <<pc, exitCode>>
       ELSE Fail(i)
    /\ UNCHANGED <<argv, env, files, dirs, unreadable, CONFIG, explicitFiles,
                   mediaFiles, nextTask, run, filesAtStart, written, calls,
                   rootAccessed, history>>

\* the options convertMedia passes to the encoder for task i
TaskParams(i) ==
    EncodeParams(mediaFiles[i], files[Resolve(mediaFiles[i])].pages, CONFIG)

\* lines 174-210
ConvertEncode(i) ==
    /\ tpc[i] = "encode"
    /\ IF EncodeOk(mediaFiles[i], TaskOutput(i))
       THEN /\ files' = (Resolve(TaskOutput(i)) :>
                            Encoded(files[Resolve(mediaFiles[i])], CONFIG.OUTPUT_FORMAT,
                                    TaskParams(i).animated))
                        @@ files
            /\ written' = written \cup {<<Resolve(TaskOutput(i)), i>>}
            /\ calls' = calls \cup {TaskParams(i)}
            /\ stats' = stats
            /\ tpc' = [tpc EXCEPT ![i] = "statOut"]
            /\ UNCHANGED <<pc, exitCode>>
       ELSE /\ Fail(i)
            /\ UNCHANGED <<files, written, calls>>
    /\ UNCHANGED <<argv, env, dirs, unreadable, CONFIG, explicitFiles, mediaFiles,
                   nextTask, run, filesAtStart, rootAccessed, history>>

\* convertMedia without the increment of line 219
ConvertStatOutNoCount(i) ==
    /\ tpc[i] = "statOut"
    /\ IF StatOk(TaskOutput(i))
       THEN /\ stats' = [stats EXCEPT !.outputSize = @ + StatSize(TaskOutput(i))]
            /\ tpc' = [tpc EXCEPT ![i] = "converted"]
            /\ UNCHANGED <<pc, exitCode>>
       ELSE Fail(i)
    /\ UNCHANGED <<argv, env, files, dirs, unreadable, CONFIG, explicitFiles,
                   mediaFiles, nextTask, run, filesAtStart, written, calls,
                   rootAccessed, history>>

\* lines 212-219
ConvertStatOut(i) ==
    /\ tpc[i] = "statOut"
    /\ IF StatOk(TaskOutput(i))
       THEN /\ stats' = [stats EXCEPT !.outputSize = @ + StatSize(TaskOutput(i)),
                                      !.converted = @ + 1]
            /\ tpc' = [tpc EXCEPT ![i] = "converted"]
            /\ UNCHANGED <<pc, exitCode>>
       ELSE Fail(i)
    /\ UNCHANGED <<argv, env, files, dirs, unreadable, CONFIG, explicitFiles,
                   mediaFiles, nextTask, run, filesAtStart, written, calls,
                   rootAccessed, history>>

\* lines 332-334 and 346: the loop is over, the summary is printed, main returns
Finish ==
    /\ pc = "loop"
    /\ nextTask > Len(mediaFiles)
    /\ PreviousSettled
    /\ pc' = "exited"
    /\ exitCode' = 0
    /\ UNCHANGED <<argv, env, files, dirs, unreadable, CONFIG, explicitFiles, mediaFiles,
                   stats, nextTask, tpc, run, filesAtStart, written, calls,
                   rootAccessed, history>>

\* the command is run again with the same arguments on the filesystem the
\* previous invocation left
Rerun ==
    /\ pc = "exited"
    /\ run < MaxRuns
    /\ history' = Append(history, [mediaFiles |-> mediaFiles, outcome |-> tpc,
                                   stats |-> stats, exitCode |-> exitCode])
    /\ run' = run + 1
    /\ pc' = "load"
    /\ CONFIG' = LoadConfig(<<>>, NoEnv)
    /\ explicitFiles' = <<>>
    /\ mediaFiles' = <<>>
    /\ stats' = ZeroStats
    /\ nextTask' = 1
    /\ tpc' = <<>>
    /\ exitCode' = -1
    /\ written' = {}
    /\ calls' = {}
    /\ rootAccessed' = FALSE
    /\ filesAtStart' = files
    /\ UNCHANGED <<argv, env, files, dirs, unreadable>>

Next ==
    \/ ParseArgs
    \/ DiscoverExplicit
    \/ DiscoverScan
    \/ FatalError
    \/ StartTask
    \/ \E i \in 1..Len(mediaFiles) : ConvertAccess(i)
    \/ \E i \in 1..Len(mediaFiles) : ConvertStat(i)
    \/ \E i \in 1..Len(mediaFiles) : ConvertProbe(i)
    \/ \E i \in 1..Len(mediaFiles) : ConvertEncode(i)
    \/ \E i \in 1..Len(mediaFiles) : ConvertStatOut(i)
    \/ Finish
    \/ Rerun

Spec == Init /\ [][Next]_vars

\* the same program started with the environments of EnvChoices
SpecParams == InitParams /\ [][Next]_vars

(* ---------------------------------------------------------------------- *)
(* Properties                                                              *)
(* ---------------------------------------------------------------------- *)
Tasks == 1..Len(mediaFiles)

Exited == pc = "exited"

ScanMode == ExplicitFiles(argv) = <<>>

CountOutcome(o) == Cardinality({i \in Tasks : tpc[i] = o})

\* C1: after a completed run, in either discovery mode, converted + skipped +
\* errors equals totalFiles, and totalFiles is the length of the task list.
C1_CountersAddUp ==
    Exited =>
        /\ stats.totalFiles = Len(mediaFiles)
        /\ stats.converted + stats.skipped + stats.errors = stats.totalFiles

C1_Witness ==
    /\ Exited
    /\ stats.converted >= 1
    /\ stats.skipped >= 1
    /\ stats.errors >= 1

\* C2: a failure of the file at position K, at any step, is counted in errors
\* and never aborts the run: the process does not exit while a task of the
\* list has no outcome, and a run that had tasks ends with exit status zero
\* and an outcome (converted, skipped or failed) for every task.
C2_FailureIsolation ==
    /\ stats.errors = CountOutcome("failed")
    /\ (\E k \in Tasks : tpc[k] = "failed") => exitCode # 1
    /\ (Exited /\ Len(mediaFiles) > 0) =>
           /\ exitCode = 0
           /\ \A i \in Tasks : tpc[i] \in Final

C2_Witness ==
    /\ Exited
    /\ \E k \in Tasks : \E j \in Tasks :
           k < j /\ tpc[k] = "failed" /\ tpc[j] = "converted"

WrittenPaths == {w[1] : w \in written}

\* C3: every file of the task list still exists with the content it had when
\* the run started, and it is never the target of an encoder write.
C3_InputsUntouched ==
    \A i \in Tasks :
        /\ mediaFiles[i] \in DOMAIN files
        /\ mediaFiles[i] \in DOMAIN filesAtStart
        /\ files[mediaFiles[i]] = filesAtStart[mediaFiles[i]]
        /\ mediaFiles[i] \notin WrittenPaths

C3_Witness ==
    /\ Exited
    /\ written # {}
    /\ \E i \in Tasks : ExtName(mediaFiles[i]) = OutputExt(CONFIG.OUTPUT_FORMAT)

\* the run before the current one
Previous == history[Len(history)]

\* C4: on a second run with the same arguments and no outside change,
\* converted is 0, every file converted or skipped by the first run is
\* skipped, and errors is 0 when the first run had no errors.
C4_Idempotent ==
    (Exited /\ run >= 2) =>
        /\ stats.converted = 0
        /\ \A k \in 1..Len(Previous.mediaFiles) :
               Previous.outcome[k] \in {"converted", "skipped"} =>
                   \E i \in Tasks : /\ mediaFiles[i] = Previous.mediaFiles[k]
                                    /\ tpc[i] = "skipped"
        /\ Previous.stats.errors = 0 => stats.errors = 0

\* the output path of task i existed when task i was decided
ExistedAtDecision(i) ==
    \/ Resolve(TaskOutput(i)) \in DOMAIN filesAtStart
    \/ DirExists(Resolve(TaskOutput(i)))
    \/ \E w \in written : w[1] = Resolve(TaskOutput(i)) /\ w[2] < i

\* size lookup, probe, encode and output size lookup all succeed for task i
AllStepsSucceed(i) ==
    /\ filesAtStart[mediaFiles[i]].fault = "none"
    /\ DirExists(Dirname(Resolve(TaskOutput(i))))

ScenarioA == <<"/", "r", "/", "a", ".jpg">>
ScenarioB == <<"/", "r", "/", "b", ".png">>
ScenarioBOut == <<"/", "r", "/", "b", ".webp">>
ScenarioC == <<"/", "r", "/", "c", ".jpg">>

\* a.jpg without a.webp, b.png with b.webp, corrupt c.jpg in a readable root,
\* format webp, scan
Scenario ==
    /\ run = 1
    /\ argv = <<>>
    /\ unreadable = {}
    /\ DOMAIN filesAtStart = {ScenarioA, ScenarioB, ScenarioBOut, ScenarioC}
    /\ filesAtStart[ScenarioA].fault = "none"
    /\ filesAtStart[ScenarioC].fault = "probe"

\* C5: a task with an outcome is skipped exactly when its derived output path
\* existed when it was decided (outputs of earlier tasks of the run included);
\* otherwise it is converted when every step succeeds and failed when one
\* does not.  The batch a.jpg, b.png (+ b.webp), corrupt c.jpg with format
\* webp ends with converted = 1 (a), skipped = 1 (b), errors = 1 (c).
C5_Outcome ==
    /\ \A i \in Tasks : tpc[i] \in Final =>
           /\ tpc[i] = "skipped" <=> ExistedAtDecision(i)
           /\ tpc[i] = "converted" <=> (~ExistedAtDecision(i) /\ AllStepsSucceed(i))
           /\ tpc[i] = "failed" <=> (~ExistedAtDecision(i) /\ ~AllStepsSucceed(i))
    /\ (Scenario /\ Exited) =>
           /\ mediaFiles = <<ScenarioA, ScenarioB, ScenarioC>>
           /\ tpc = <<"converted", "skipped", "failed">>
           /\ stats.converted = 1 /\ stats.skipped = 1 /\ stats.errors = 1
           /\ exitCode = 0

C5_Witness == Scenario /\ Exited /\ stats.totalFiles = 3

\* the base name without its extension
Stem(p) ==
    IF ExtName(p) = "" THEN Basename(p)
    ELSE SubSeq(Basename(p), 1, Len(Basename(p)) - 1)

\* C6: for every task the derived output path lies in the directory of the
\* input, has the stem of the input and has the extension of the selected
\* format.
C6_NamingLaw ==
    \A i \in Tasks :
        /\ Dirname(Resolve(TaskOutput(i))) = Dirname(mediaFiles[i])
        /\ Stem(TaskOutput(i)) = Stem(mediaFiles[i])
        /\ ExtName(TaskOutput(i)) = OutputExt(CONFIG.OUTPUT_FORMAT)

\* C7: two distinct input files that both got an outcome in the same run
\* never derive the same output path.
C7_NoCollision ==
    \A i \in Tasks : \A j \in Tasks :
        (tpc[i] \in Final /\ tpc[j] \in Final /\ mediaFiles[i] # mediaFiles[j]) =>
            Resolve(TaskOutput(i)) # Resolve(TaskOutput(j))

\* C8: in directory-scan mode the run ends with exit status 1, an empty task
\* list and untouched counters and files exactly when the scan root cannot be
\* accessed; otherwise it ends with exit status 0, and all counters are zero
\* when the root has no entries.
C8_ScanExitStatus ==
    /\ ~Exited => exitCode = -1
    /\ (ScanMode /\ Exited) =>
           /\ exitCode \in {0, 1}
           /\ exitCode = 1 <=> ~Accessible(ASSETS_DIR)
           /\ exitCode = 1 =>
                  (mediaFiles = <<>> /\ stats = ZeroStats /\ files = filesAtStart)
           /\ (Accessible(ASSETS_DIR) /\ Readdir(ASSETS_DIR) = <<>>) =>
                  (exitCode = 0 /\ stats = ZeroStats)

C8_Witness == ScanMode /\ Exited /\ exitCode = 1 /\ run = 1

\* C9: in explicit-file mode, when every explicit path is missing the process
\* ends with a non-zero exit status.
C9_AllMissingIsFatal ==
    (Exited /\ Len(explicitFiles) > 0 /\
     \A k \in 1..Len(explicitFiles) : ~Accessible(Resolve(explicitFiles[k]))) =>
        exitCode # 0

InFlight == {i \in Tasks : tpc[i] \notin Final \cup {"idle"}}

\* C10: at most one task is in progress, and a task is started only when every
\* task before it in the list has recorded its outcome.
C10_Sequential ==
    /\ Cardinality(InFlight) <= 1
    /\ \A i \in Tasks : tpc[i] # "idle" => \A j \in 1..(i - 1) : tpc[j] \in Final

C10_Witness ==
    \E i \in Tasks : i >= 2 /\ tpc[i] = "encode" /\ tpc[i - 1] = "converted"

\* the names between the separators of p
RECURSIVE Components(_)
Components(p) ==
    IF p = <<>> THEN <<>>
    ELSE IF Head(p) = Sep THEN Components(Tail(p))
    ELSE LET S == {i \in 1..Len(p) : p[i] = Sep}
             e == IF S = {} THEN Len(p) + 1 ELSE CHOOSE i \in S : \A j \in S : i <= j
         IN  <<SubSeq(p, 1, e - 1)>> \o Components(SubSeq(p, e, Len(p)))

\* p comes before q in a depth-first walk that takes the entries of each
\* directory in listing order
DepthFirstBefore(p, q) ==
    LET cp == Components(p)
        cq == Components(q)
        D  == {k \in 1..Min(Len(cp), Len(cq)) : cp[k] # cq[k]}
    IN  /\ D # {}
        /\ LET k == CHOOSE x \in D : \A y \in D : x <= y
           IN  NameLess(cp[k], cq[k])

AllowedExtensions == {".jpg", ".jpeg", ".png", ".gif", ".mp4", ".webm", ".mov"}

HasAllowedExtension(p) == LowerToken(ExtName(p)) \in AllowedExtensions

\* the regular files beneath the scan root with an allowed extension and no
\* unlistable directory on the way from the root
ExpectedFiles ==
    {f \in DOMAIN filesAtStart :
        /\ ASSETS_DIR \in Ancestors(f)
        /\ HasAllowedExtension(f)
        /\ Ancestors(f) \cap unreadable = {}}

ScanDone == ScanMode /\ rootAccessed /\ exitCode # 1

IsDepthFirstListing(list, S) ==
    /\ Range(list) = S
    /\ \A i \in 1..Len(list) : \A j \in 1..Len(list) :
           i < j => (list[i] # list[j] /\ DepthFirstBefore(list[i], list[j]))

C12_ScanRecovers ==
    (ScanDone /\ unreadable # {} /\ ASSETS_DIR \notin unreadable) =>
        /\ IsDepthFirstListing(mediaFiles, ExpectedFiles)
        /\ \A f \in Range(mediaFiles) : Ancestors(f) \cap unreadable = {}

C12_Witness ==
    /\ ScanDone
    /\ unreadable = {<<"/", "r", "/", "p", ".jpg">>}
    /\ <<"/", "r", "/", "p", ".jpg", "/", "q", ".jpg">> \in DOMAIN filesAtStart
    /\ <<"/", "r", "/", "a", ".jpg">> \in Range(mediaFiles)
    /\ <<"/", "r", "/", "s", "/", "d", ".JPG">> \in Range(mediaFiles)

\* sum of the input sizes of the converted tasks among the first k
RECURSIVE ConvertedInputSize(_)
ConvertedInputSize(k) ==
    IF k = 0 THEN 0
    ELSE ConvertedInputSize(k - 1) +
         (IF tpc[k] = "converted" THEN filesAtStart[mediaFiles[k]].size ELSE 0)

\* sum of the output sizes of the converted tasks among the first k
RECURSIVE ConvertedOutputSize(_)
ConvertedOutputSize(k) ==
    IF k = 0 THEN 0
    ELSE ConvertedOutputSize(k - 1) +
         (IF tpc[k] = "converted" THEN files[Resolve(TaskOutput(k))].size ELSE 0)

\* C13: after a run originalSize is the sum of the input sizes of exactly the
\* converted files and outputSize the sum of their output sizes; skipped and
\* failed files contribute to neither.
C13_ByteTotals ==
    Exited =>
        /\ stats.originalSize = ConvertedInputSize(Len(mediaFiles))
        /\ stats.outputSize = ConvertedOutputSize(Len(mediaFiles))

\* the number the user configured in a variable, <<>> when it is not a number
Configured(text) == ParseInt(text)

AnimatedExtensions == {".gif", ".mp4", ".webm", ".mov"}

\* C14: with AVIF output and AVIF_EFFORT configured in 0..9, the effort passed
\* to the encoder is min(AVIF_EFFORT, 4) for a GIF or video input and exactly
\* AVIF_EFFORT for a still image, with or without lossless.
C14_EffortCap ==
    \A call \in calls :
        (/\ call.format = "avif"
         /\ Configured(env.AVIF_EFFORT) # <<>>
         /\ Configured(env.AVIF_EFFORT)[1] \in 0..9) =>
            IF LowerToken(ExtName(call.input)) \in AnimatedExtensions
            THEN /\ call.effort = Min(Configured(env.AVIF_EFFORT)[1], 4)
                 /\ call.effort <= 4
            ELSE call.effort = Configured(env.AVIF_EFFORT)[1]

\* C14 for the efforts 1..9
C14_EffortCapFromOne ==
    \A call \in calls :
        (/\ call.format = "avif"
         /\ Configured(env.AVIF_EFFORT) # <<>>
         /\ Configured(env.AVIF_EFFORT)[1] \in 1..9) =>
            IF LowerToken(ExtName(call.input)) \in AnimatedExtensions
            THEN /\ call.effort = Min(Configured(env.AVIF_EFFORT)[1], 4)
                 /\ call.effort <= 4
            ELSE call.effort = Configured(env.AVIF_EFFORT)[1]

\* C15: an input whose probe reports more than one frame is encoded with the
\* animation flag on.
C15_AnimationPreserved ==
    \A call \in calls : call.pages > 1 => call.animated

\* C16: a quality in 0..100 and a WebP effort in 0..6 given in the environment
\* is the value passed to the encoder of the selected format; an unset
\* variable gives 80 (WebP quality), 75 (AVIF quality) and 6 (WebP effort).
C16_ConfiguredValues ==
    \A call \in calls :
        LET wq == Configured(env.WEBP_QUALITY)
            we == Configured(env.WEBP_EFFORT)
            aq == Configured(env.AVIF_QUALITY)
        IN  /\ (call.format = "webp" /\ wq # <<>> /\ wq[1] \in 0..100) =>
                   call.quality = wq[1]
            /\ (call.format = "webp" /\ we # <<>> /\ we[1] \in 0..6) =>
                   call.effort = we[1]
            /\ (call.format = "avif" /\ aq # <<>> /\ aq[1] \in 0..100) =>
                   call.quality = aq[1]
            /\ (call.format = "webp" /\ env.WEBP_QUALITY = <<>>) => call.quality = 80
            /\ (call.format = "webp" /\ env.WEBP_EFFORT = <<>>) => call.effort = 6
            /\ (call.format = "avif" /\ env.AVIF_QUALITY = <<>>) => call.quality = 75

\* C17: in both discovery modes every task of the batch has an extension whose
\* lowercase form is in the allowed set, and no other file reaches the encoder.
C17_AllowList ==
    /\ \A i \in Tasks : HasAllowedExtension(mediaFiles[i])
    /\ \A call \in calls : HasAllowedExtension(call.input)

\* the scan-mode half of C17
C17_AllowListScan == ScanMode => C17_AllowList

ReservedWords == {<<"webp">>, <<"avif">>, <<"--lossless">>, <<"-l">>}

IsPathArgument(arg) == ToLowerCase(arg) \notin ReservedWords

HasPathArgument == \E i \in 1..Len(argv) : IsPathArgument(argv[i])

AccessibleAtStart(p) ==
    Resolve(p) \in DOMAIN filesAtStart \/ DirExists(Resolve(p))

\* the accessible path arguments among the first k arguments, resolved, in
\* argument order
RECURSIVE AccessiblePathArguments(_)
AccessiblePathArguments(k) ==
    IF k = 0 THEN <<>>
    ELSE AccessiblePathArguments(k - 1) \o
         (IF IsPathArgument(argv[k]) /\ AccessibleAtStart(argv[k])
          THEN <<Resolve(argv[k])>> ELSE <<>>)

TaskListKnown == pc \in {"loop", "exited"} /\ exitCode # 1

\* C18: with a path argument the scan root is never accessed and the task
\* list is the accessible path arguments in argument order, the missing ones
\* in no counter; without one the task list is the scan result.
C18_ModesExclusive ==
    /\ HasPathArgument => ~rootAccessed
    /\ (HasPathArgument /\ TaskListKnown) =>
           /\ mediaFiles = AccessiblePathArguments(Len(argv))
           /\ stats.totalFiles = Len(mediaFiles)
           /\ stats.converted + stats.skipped + stats.errors <= Len(mediaFiles)
    /\ (~HasPathArgument /\ TaskListKnown) =>
           /\ rootAccessed
           /\ IsDepthFirstListing(mediaFiles, ExpectedFiles)

C18_Witness ==
    /\ Exited
    /\ Len(mediaFiles) = 1
    /\ \E i \in 1..Len(argv) : IsPathArgument(argv[i]) /\ ~AccessibleAtStart(argv[i])
    /\ \E f \in ExpectedFiles : f \notin Range(mediaFiles)
    /\ stats.converted = 1

Started == {i \in Tasks : tpc[i] # "idle"}

Finished == {i \in Tasks : tpc[i] \in Final}

\* the tasks taken are a prefix of the list, the finished ones a prefix of
\* those, and the counters count the finished ones
ConsumedInOrder ==
    /\ Started = 1..(nextTask - 1)
    /\ Finished \in {1..(nextTask - 1), 1..(nextTask - 2)}
    /\ stats.converted = CountOutcome("converted")
    /\ stats.skipped = CountOutcome("skipped")
    /\ stats.errors = CountOutcome("failed")
    /\ stats.converted + stats.skipped + stats.errors = Cardinality(Finished)
    /\ Cardinality(Finished) <= stats.totalFiles
    /\ pc \in {"loop", "exited"} => stats.totalFiles = Len(mediaFiles)

\* within one run: a finished task keeps its outcome, the task list and
\* totalFiles are fixed once the loop runs, and no counter decreases
ConsumedOnce ==
    run' = run =>
        /\ \A i \in Finished : i \in DOMAIN tpc' /\ tpc'[i] = tpc[i]
        /\ pc = "loop" => (mediaFiles' = mediaFiles /\
                           stats'.totalFiles = stats.totalFiles)
        /\ stats'.converted >= stats.converted
        /\ stats'.skipped >= stats.skipped
        /\ stats'.errors >= stats.errors
        /\ stats'.totalFiles >= stats.totalFiles
        /\ nextTask' \in {nextTask, nextTask + 1}

\* C19: at every point of a run the finished tasks are exactly the first k
\* entries of the task list, each processed once and in list order,
\* totalFiles is unchanged since the loop began, converted + skipped + errors
\* = k <= totalFiles, and no counter decreases.
C19_InOrderOnce == []ConsumedInOrder /\ [][ConsumedOnce]_vars

C19_Witness ==
    /\ pc = "loop"
    /\ Len(mediaFiles) >= 3
    /\ nextTask = 3
    /\ tpc[1] = "failed"
    /\ tpc[2] = "converted"
    /\ tpc[3] = "idle"

\* the scan root passes the existence check and its listing fails: it is a
\* regular file, or a directory that may not be read
RootUnlistable ==
    \/ ASSETS_DIR \in DOMAIN filesAtStart
    \/ DirExists(ASSETS_DIR) /\ ASSETS_DIR \in unreadable

\* C20: when the scan root exists and cannot be listed, the task list is
\* empty, nothing is processed, every counter stays zero and the run ends
\* with exit status 0.
C20_UnlistableRoot ==
    (ScanMode /\ RootUnlistable /\ pc \in {"loop", "exited"}) =>
        /\ pc = "exited"
        /\ exitCode = 0
        /\ mediaFiles = <<>>
        /\ stats = ZeroStats
        /\ calls = {}
        /\ written = {}
        /\ files = filesAtStart

C20_Witness ==
    /\ ScanMode /\ Exited /\ rootAccessed
    /\ DirExists(ASSETS_DIR) /\ ASSETS_DIR \in unreadable
    /\ \E f \in DOMAIN filesAtStart :
           ASSETS_DIR \in Ancestors(f) /\ HasAllowedExtension(f)
    /\ exitCode = 0

====
